---------------------------- MODULE Spec2Model ----------------------------
(***************************************************************************)
(* A model of Homework_7.py: validated fields (Field, Name, Phone,         *)
(* BirthdayField), Record, AddressBook with its JSON / pickle persistence, *)
(* and the interactive menu loop.                                          *)
(*                                                                         *)
(* A Python str is a sequence of one-character strings; Python's None is   *)
(* the value None below.  A raised exception is recorded by its class name *)
(* in exc ("none" when the call returned).                                 *)
(***************************************************************************)
EXTENDS Integers, Sequences, FiniteSets, TLC

VARIABLES
    record,   \* the Record under test in the field-level harness, or NoRecord
    now,      \* the value datetime.now() returned in the last call, NoClock if it read no clock
    data,     \* AddressBook.data: the dict, as a sequence of <<key, Record>> in insertion order
    fs,       \* the file system: file name -> Missing or the file's content
    snap,     \* history: the file and the store of the last complete save_to_json
    prev,     \* history: data before the last call
    prevFile, \* history: the content of the last call's file before the call
    pc,       \* the interactive program: "menu", "crashed", "exited" (or "api" outside it)
    out,      \* the last message the menu loop printed
    lastOp,   \* the last call made
    arg,      \* its argument
    exc,      \* the exception it raised, or "none"
    ret       \* the value it returned

vars == <<record, now, data, fs, snap, prev, prevFile, pc, out, lastOp, arg, exc, ret>>

---------------------------------------------------------------------------
(* Python values *)

None == <<"None">>

NoRecord == [none |-> TRUE]

DigitChars == <<"0", "1", "2", "3", "4", "5", "6", "7", "8", "9">>

IsDigit(c) == \E i \in 1..10 : DigitChars[i] = c

DigitVal(c) == (CHOOSE i \in 1..10 : DigitChars[i] = c) - 1

\* $ of a Python regular expression (no MULTILINE): the end of the string, or
\* just before a newline that ends the string.  i is the index of the next
\* character to read.
AtDollar(s, i) == i = Len(s) + 1 \/ (i = Len(s) /\ s[i] = "\n")

AllDigits(s, from, to) == to <= Len(s) /\ \A j \in from..to : IsDigit(s[j])

PhoneDigits == 10

\* re.match(r"^\+?\d{10}$|^\d{10}$", phone)
is_valid_phone(phone) ==
    \/ \E k \in {0, 1} :
          /\ k = 1 => (Len(phone) >= 1 /\ phone[1] = "+")
          /\ AllDigits(phone, k + 1, k + PhoneDigits)
          /\ AtDollar(phone, k + PhoneDigits + 1)
    \/ /\ AllDigits(phone, 1, PhoneDigits)
       /\ AtDollar(phone, PhoneDigits + 1)

\* re.match(r"^\d{4}-\d{2}-\d{2}$", new_value)
MatchISO(s) ==
    /\ AllDigits(s, 1, 4)
    /\ Len(s) >= 10 /\ s[5] = "-"
    /\ AllDigits(s, 6, 7)
    /\ s[8] = "-"
    /\ AllDigits(s, 9, 10)
    /\ AtDollar(s, 11)

\* re.match(r"^\d{2}.\d{2}.\d{4}$", birthday): "." is any character but a newline
MatchDMY(s) ==
    /\ AllDigits(s, 1, 2)
    /\ Len(s) >= 10 /\ s[3] # "\n"
    /\ AllDigits(s, 4, 5)
    /\ s[6] # "\n"
    /\ AllDigits(s, 7, 10)
    /\ AtDollar(s, 11)

---------------------------------------------------------------------------
(* Field, Name, Phone, BirthdayField, Record *)

\* Phone.__init__: the exception it raises, "none" when it stores the value.
\* re.match on None raises TypeError.
PhoneInit(value) ==
    IF value = None THEN "TypeError"
    ELSE IF ~is_valid_phone(value) THEN "ValueError"
    ELSE "none"

\* BirthdayField.__init__: Field.__init__ stores into _value directly, the
\* value setter is not used.
BirthdayFieldInit(value) == value

\* Field.value setter (Name, Phone and plain Field inherit it)
FieldSetValue(old, new_value) == [value |-> new_value, exc |-> "none"]

\* BirthdayField.value setter
BirthdaySetValue(old, new_value) ==
    IF new_value = None THEN [value |-> old, exc |-> "TypeError"]
    ELSE IF ~MatchISO(new_value) THEN [value |-> old, exc |-> "ValueError"]
    ELSE [value |-> new_value, exc |-> "none"]

\* Record.__init__: Name, Phone, Field, BirthdayField in that order
RecordInit(name, phone, email, birthday) ==
    IF PhoneInit(phone) # "none"
    THEN [rec |-> NoRecord, exc |-> PhoneInit(phone)]
    ELSE [rec |-> [name |-> name, phone |-> phone, email |-> email,
                   birthday |-> BirthdayFieldInit(birthday)],
          exc |-> "none"]

\* Record.set_birthday
SetBirthday(rec, birthday) ==
    IF birthday = None THEN [rec |-> rec, exc |-> "TypeError"]
    ELSE IF ~MatchDMY(birthday) THEN [rec |-> rec, exc |-> "ValueError"]
    ELSE LET r == BirthdaySetValue(rec.birthday, birthday)
         IN  [rec |-> [rec EXCEPT !.birthday = r.value], exc |-> r.exc]

---------------------------------------------------------------------------
(* Calendar arithmetic of the datetime module *)

IsLeap(y) == (y % 4 = 0 /\ y % 100 # 0) \/ y % 400 = 0

DaysInMonth(y, m) ==
    IF m = 2 THEN (IF IsLeap(y) THEN 29 ELSE 28)
    ELSE IF m \in {4, 6, 9, 11} THEN 30 ELSE 31

RECURSIVE DaysBeforeMonth(_, _)
DaysBeforeMonth(y, m) ==
    IF m <= 1 THEN 0 ELSE DaysBeforeMonth(y, m - 1) + DaysInMonth(y, m - 1)

\* date.toordinal()
Ordinal(y, m, d) ==
    (y - 1) * 365 + ((y - 1) \div 4) - ((y - 1) \div 100) + ((y - 1) \div 400)
        + DaysBeforeMonth(y, m) + d

\* datetime(y, m, d) raises ValueError unless this holds
ValidDate(y, m, d) ==
    y >= 1 /\ y <= 9999 /\ m \in 1..12 /\ d >= 1 /\ d <= DaysInMonth(y, m)

NumVal2(s, i) == DigitVal(s[i]) * 10 + DigitVal(s[i + 1])

NumVal4(s, i) == NumVal2(s, i) * 100 + NumVal2(s, i + 2)

\* datetime.strptime(s, "%d.%m.%Y"): %d is 3[0-1]|[1-2]\d|0[1-9]|[1-9]| [1-9],
\* %m is 1[0-2]|0[1-9]|[1-9], %Y is \d\d\d\d, the whole string must be used
\* and the date must exist.  i and j are the widths of the day and the month.
StrptimeShape(s, i, j) ==
    /\ Len(s) = i + j + 6
    /\ s[i + 1] = "." /\ s[i + j + 2] = "."
    /\ IF i = 1 THEN IsDigit(s[1]) /\ s[1] # "0"
       ELSE \/ AllDigits(s, 1, 2) /\ NumVal2(s, 1) \in 1..31
            \/ s[1] = " " /\ IsDigit(s[2]) /\ s[2] # "0"
    /\ IF j = 1 THEN IsDigit(s[i + 2]) /\ s[i + 2] # "0"
       ELSE AllDigits(s, i + 2, i + 3) /\ NumVal2(s, i + 2) \in 1..12
    /\ AllDigits(s, i + j + 3, i + j + 6)

StrptimeDMY(s) ==
    LET shapes == {w \in {1, 2} \X {1, 2} : StrptimeShape(s, w[1], w[2])}
    IN  IF shapes = {} THEN [ok |-> FALSE, year |-> 0, month |-> 0, day |-> 0]
        ELSE LET w == CHOOSE x \in shapes : TRUE
                 i == w[1]
                 j == w[2]
                 d == IF i = 1 THEN DigitVal(s[1])
                      ELSE IF s[1] = " " THEN DigitVal(s[2]) ELSE NumVal2(s, 1)
                 m == IF j = 1 THEN DigitVal(s[i + 2]) ELSE NumVal2(s, i + 2)
                 y == NumVal4(s, i + j + 3)
             IN  [ok |-> ValidDate(y, m, d), year |-> y, month |-> m, day |-> d]

RetNone == [kind |-> "None", v |-> 0]

RetInt(n) == [kind |-> "int", v |-> n]

RetBool(b) == [kind |-> "bool", v |-> IF b THEN 1 ELSE 0]

\* (next_birthday - current_date).days, next_birthday being midnight of the
\* day with ordinal nextOrd and current_date being tod seconds into the day
\* with ordinal nowOrd: timedelta.days is the floor of the difference
DeltaDays(nextOrd, nowOrd, tod) == ((nextOrd - nowOrd) * 86400 - tod) \div 86400

\* Record.days_to_birthday, datetime.now() having returned clock
days_to_birthday(rec, clock) ==
    IF rec.birthday = None THEN [ret |-> RetNone, exc |-> "none"]
    ELSE LET birthdate == StrptimeDMY(rec.birthday)
             nowOrd    == Ordinal(clock.year, clock.month, clock.day)
         IN
         IF ~birthdate.ok THEN [ret |-> RetNone, exc |-> "none"]
         ELSE IF ~ValidDate(clock.year, birthdate.month, birthdate.day)
         THEN [ret |-> RetNone, exc |-> "ValueError"]
         ELSE LET thisOrd == Ordinal(clock.year, birthdate.month, birthdate.day)
                  passed  == nowOrd > thisOrd \/ (nowOrd = thisOrd /\ clock.tod > 0)
              IN
              IF ~passed
              THEN [ret |-> RetInt(DeltaDays(thisOrd, nowOrd, clock.tod)), exc |-> "none"]
              ELSE IF ~ValidDate(clock.year + 1, birthdate.month, birthdate.day)
              THEN [ret |-> RetNone, exc |-> "ValueError"]
              ELSE [ret |-> RetInt(DeltaDays(
                                Ordinal(clock.year + 1, birthdate.month, birthdate.day),
                                nowOrd, clock.tod)),
                    exc |-> "none"]

---------------------------------------------------------------------------
(* The field-level harness: one Record, built and changed through           *)
(* Record.__init__, the value setters, set_birthday and days_to_birthday.   *)

Missing == [exists |-> FALSE, bytes |-> <<>>]

NoSnap == [file |-> "", store |-> <<>>, valid |-> FALSE]

NoClock == [year |-> 0, month |-> 0, day |-> 0, tod |-> 0]

Fmt2(n) == <<DigitChars[(n \div 10) + 1], DigitChars[(n % 10) + 1]>>

Fmt4(n) == Fmt2(n \div 100) \o Fmt2(n % 100)

FmtISO(y, m, d) == Fmt4(y) \o <<"-">> \o Fmt2(m) \o <<"-">> \o Fmt2(d)

FmtDMY(y, m, d) == Fmt2(d) \o <<".">> \o Fmt2(m) \o <<".">> \o Fmt4(y)

DigitRun(n) == [i \in 1..n |-> DigitChars[((i - 1) % 10) + 1]]

MinRun == 8

MaxRun == 12

\* phone strings tried: a prefix, a run of digits, a suffix; a character
\* embedded in the run; the empty string
PhoneInputs ==
    {pre \o DigitRun(n) \o suf :
        pre \in {<<>>, <<"+">>, <<"+", "+">>, <<" ">>},
        n \in MinRun..MaxRun,
        suf \in {<<>>, <<"\n">>, <<" ">>, <<"a">>, <<"\n", "\n">>}}
    \cup {DigitRun(5) \o <<c>> \o DigitRun(n) :
        c \in {"-", " ", "\n", "+"}, n \in {4, 5}}
    \cup {<<>>}

\* the phones Record is built with in the harnesses
FewPhones ==
    {DigitRun(PhoneDigits), <<"+">> \o DigitRun(PhoneDigits),
     DigitRun(PhoneDigits) \o <<"\n">>, DigitRun(PhoneDigits - 1), <<"x">>}

BirthYear == 2000

\* <<month, day>> of the birthdays and of the current dates tried
BirthMonthDays ==
    {<<1, 1>>, <<2, 28>>, <<2, 29>>, <<3, 1>>, <<6, 14>>, <<6, 15>>, <<6, 16>>, <<12, 31>>}

FirstYear == 2023

LastYear == 2024

ClockMonthDays == {<<1, 1>>, <<2, 28>>, <<2, 29>>, <<3, 1>>, <<6, 15>>, <<12, 31>>}

\* the values of datetime.now() tried: midnight and noon of these days
Clocks ==
    {c \in {[year |-> y, month |-> md[1], day |-> md[2], tod |-> t] :
                y \in FirstYear..LastYear, md \in ClockMonthDays, t \in {0, 43200}} :
        ValidDate(c.year, c.month, c.day)}

Malformed ==
    {Fmt4(BirthYear) \o <<"/">> \o Fmt2(1) \o <<"/">> \o Fmt2(2),
     Fmt4(BirthYear) \o <<"-", "1", "-", "2">>,
     FmtISO(BirthYear, 13, 45),
     FmtISO(2001, 2, 29),
     FmtDMY(BirthYear, 2, 31),
     Fmt2(2) \o <<"-">> \o Fmt2(1) \o <<"-">> \o Fmt4(BirthYear),
     FmtISO(BirthYear, 1, 2) \o <<"\n">>,
     FmtDMY(BirthYear, 1, 2) \o <<"\n">>,
     <<"x">>}

BirthdayInputs ==
    {FmtISO(BirthYear, md[1], md[2]) : md \in BirthMonthDays}
    \cup {FmtDMY(BirthYear, md[1], md[2]) : md \in BirthMonthDays}
    \cup Malformed

TheName == <<"A">>

TheEmail == <<"a", "@", "x">>

InitRest ==
    /\ data = <<>>
    /\ fs = [f \in {"f"} |-> Missing]
    /\ snap = NoSnap
    /\ prevFile = Missing
    /\ out = ""
    /\ lastOp = "init"
    /\ arg = None
    /\ exc = "none"
    /\ ret = RetNone

InitField ==
    /\ record = NoRecord
    /\ prev = NoRecord
    /\ now = NoClock
    /\ pc = "api"
    /\ InitRest

StoreUnchanged == UNCHANGED <<data, fs, snap, prevFile, pc, out>>

\* Phone(value)
FPhone(value) ==
    /\ lastOp' = "Phone"
    /\ arg' = value
    /\ exc' = PhoneInit(value)
    /\ ret' = RetNone
    /\ prev' = NoRecord
    /\ now' = NoClock
    /\ UNCHANGED record
    /\ StoreUnchanged

\* record = Record(name, phone, email, birthday); a raise leaves record as it was
FRecord(phone, birthday) ==
    LET r == RecordInit(TheName, phone, TheEmail, birthday)
    IN  /\ lastOp' = "Record"
        /\ arg' = [phone |-> phone, birthday |-> birthday]
        /\ exc' = r.exc
        /\ ret' = RetNone
        /\ prev' = NoRecord
        /\ record' = IF r.exc = "none" THEN r.rec ELSE record
        /\ now' = NoClock
        /\ StoreUnchanged

\* record.phone.value = value
FAssignPhone(value) ==
    /\ record # NoRecord
    /\ LET r == FieldSetValue(record.phone, value)
       IN  /\ record' = [record EXCEPT !.phone = r.value]
           /\ exc' = r.exc
    /\ lastOp' = "phone.value"
    /\ arg' = value
    /\ ret' = RetNone
    /\ prev' = record
    /\ now' = NoClock
    /\ StoreUnchanged

\* record.birthday.value = value
FAssignBirthday(value) ==
    /\ record # NoRecord
    /\ LET r == BirthdaySetValue(record.birthday, value)
       IN  /\ record' = [record EXCEPT !.birthday = r.value]
           /\ exc' = r.exc
    /\ lastOp' = "birthday.value"
    /\ arg' = value
    /\ ret' = RetNone
    /\ prev' = record
    /\ now' = NoClock
    /\ StoreUnchanged

\* record.set_birthday(value)
FSetBirthday(value) ==
    /\ record # NoRecord
    /\ LET r == SetBirthday(record, value)
       IN  /\ record' = r.rec
           /\ exc' = r.exc
    /\ lastOp' = "set_birthday"
    /\ arg' = value
    /\ ret' = RetNone
    /\ prev' = record
    /\ now' = NoClock
    /\ StoreUnchanged

\* record.days_to_birthday(), datetime.now() returning clock
FDaysToBirthday(clock) ==
    /\ record # NoRecord
    /\ LET r == days_to_birthday(record, clock)
       IN  /\ ret' = r.ret
           /\ exc' = r.exc
    /\ lastOp' = "days_to_birthday"
    /\ arg' = None
    /\ now' = clock
    /\ prev' = NoRecord
    /\ UNCHANGED record
    /\ StoreUnchanged

NextField ==
    \/ \E p \in FewPhones, b \in BirthdayInputs \cup {None} : FRecord(p, b)
    \/ \E v \in {<<"x">>, DigitRun(PhoneDigits)} : FAssignPhone(v)
    \/ \E v \in BirthdayInputs : FAssignBirthday(v)
    \/ \E v \in BirthdayInputs : FSetBirthday(v)
    \/ \E c \in Clocks : FDaysToBirthday(c)

SpecField == InitField /\ [][NextField]_vars

\* Phone construction alone, over every phone string tried
NextPhone == \E v \in PhoneInputs : FPhone(v)

SpecPhone == InitField /\ [][NextPhone]_vars

---------------------------------------------------------------------------
(* What the specification calls valid, stated apart from the code *)

\* exactly ten decimal digits, optionally preceded by one "+"
CanonicalPhone(s) ==
    \E k \in {0, 1} :
        /\ Len(s) = k + 10
        /\ k = 1 => s[1] = "+"
        /\ \A j \in (k + 1)..(k + 10) : IsDigit(s[j])

\* YYYY-MM-DD naming a real calendar date
CanonicalBirthday(s) ==
    /\ Len(s) = 10
    /\ s[5] = "-" /\ s[8] = "-"
    /\ \A j \in {1, 2, 3, 4, 6, 7, 9, 10} : IsDigit(s[j])
    /\ ValidDate(NumVal4(s, 1), NumVal2(s, 6), NumVal2(s, 9))

\* a birthday on file as a date, in either of the two formats the code names
WellFormedBirthday(b) == b # None /\ (CanonicalBirthday(b) \/ StrptimeDMY(b).ok)

BirthdayMD(b) ==
    IF CanonicalBirthday(b) THEN <<NumVal2(b, 6), NumVal2(b, 9)>>
    ELSE <<StrptimeDMY(b).month, StrptimeDMY(b).day>>

\* month/day md falls k days after the day of clock (k may be negative)
FallsAt(md, clock, k) ==
    \E y \in (clock.year - 1)..(clock.year + 1) :
        /\ ValidDate(y, md[1], md[2])
        /\ Ordinal(y, md[1], md[2]) = Ordinal(clock.year, clock.month, clock.day) + k

\* C10: Phone construction succeeds for exactly the strings of ten decimal
\* digits with one optional leading "+", and fails with the invalid-format
\* error (ValueError) for every other string.
C10_PhoneAcceptsExactlyCanonical ==
    lastOp = "Phone" =>
        /\ (exc = "none") <=> CanonicalPhone(arg)
        /\ exc \in {"none", "ValueError"}

\* C5: set_birthday succeeds for every string in the canonical birthday format
\* and then the birthday is that string; for every other string it fails with
\* the invalid-format error and the birthday is unchanged.
C5_SetBirthdayAcceptsCanonical ==
    lastOp = "set_birthday" =>
        IF CanonicalBirthday(arg)
        THEN exc = "none" /\ record.birthday = arg
        ELSE exc = "ValueError" /\ record.birthday = prev.birthday

\* What the code does instead: no string passes both patterns of
\* set_birthday and of the BirthdayField setter, so every call fails.
SetBirthdayAlwaysFails ==
    lastOp = "set_birthday" => exc = "ValueError" /\ record = prev

\* C6: every stored phone satisfies the phone predicate and every stored
\* birthday is absent or a well-formed canonical date, whatever sequence of
\* constructions, assignments and set_birthday calls was made; constructing a
\* Record with a malformed birthday fails with the invalid-format error.
C6_ValidatedFieldInvariant ==
    /\ record # NoRecord =>
          /\ is_valid_phone(record.phone)
          /\ record.birthday = None \/ CanonicalBirthday(record.birthday)
    /\ (lastOp = "Record" /\ arg.birthday # None /\ ~CanonicalBirthday(arg.birthday))
          => exc = "ValueError"

\* C7: with a birthday on file as a date, days_to_birthday returns 0 when the
\* birthday's month/day is today's, 1 when it is tomorrow's, 364 or 365 when it
\* was yesterday's, at every time of day; it does not return None (None is
\* for a record with no birthday on file).
C7_DaysToBirthday ==
    (lastOp = "days_to_birthday" /\ exc = "none"
        /\ WellFormedBirthday(record.birthday)) =>
            LET md == BirthdayMD(record.birthday)
            IN  /\ ret.kind = "int"
                /\ FallsAt(md, now, 0) => ret.v = 0
                /\ FallsAt(md, now, 1) => ret.v = 1
                /\ FallsAt(md, now, -1) => ret.v \in {364, 365}

---------------------------------------------------------------------------
(* AddressBook: the dict and its persistence *)

RECURSIVE IndexOfKey(_, _, _)
\* the position of key k in the dict d at or after i, 0 when absent
IndexOfKey(d, k, i) ==
    IF i > Len(d) THEN 0
    ELSE IF d[i].key = k THEN i ELSE IndexOfKey(d, k, i + 1)

\* AddressBook.add_record: self.data[record.name.value] = record
add_record(d, rec) ==
    LET i == IndexOfKey(d, rec.name, 1)
    IN  IF i = 0 THEN Append(d, [key |-> rec.name, rec |-> rec])
        ELSE [d EXCEPT ![i] = [key |-> rec.name, rec |-> rec]]

\* AddressBook.find
find(d, name) ==
    LET i == IndexOfKey(d, name, 1)
    IN  IF i = 0 THEN NoRecord ELSE d[i].rec

\* AddressBook.delete
delete(d, name) ==
    LET i == IndexOfKey(d, name, 1)
    IN  IF i = 0 THEN [data |-> d, ret |-> RetBool(FALSE)]
        ELSE [data |-> SubSeq(d, 1, i - 1) \o SubSeq(d, i + 1, Len(d)),
              ret |-> RetBool(TRUE)]

(* json: a str is written between quotes with ", \ and newline escaped *)

\* a json encoder that forgets to escape the backslash
JSONEscapeChar_NoBackslash(c) ==
    IF c = "\"" THEN <<"\\", "\"">>
    ELSE IF c = "\n" THEN <<"\\", "n">>
    ELSE <<c>>

JSONEscapeChar(c) ==
    IF c = "\"" THEN <<"\\", "\"">>
    ELSE IF c = "\\" THEN <<"\\", "\\">>
    ELSE IF c = "\n" THEN <<"\\", "n">>
    ELSE <<c>>

RECURSIVE JSONEscape(_)
JSONEscape(s) ==
    IF s = <<>> THEN <<>> ELSE JSONEscapeChar(Head(s)) \o JSONEscape(Tail(s))

RECURSIVE JSONUnescapeOK(_)
\* the text between the quotes scans as one JSON string
JSONUnescapeOK(t) ==
    IF t = <<>> THEN TRUE
    ELSE IF Head(t) = "\\"
         THEN Len(t) >= 2 /\ t[2] \in {"\"", "\\", "n"} /\ JSONUnescapeOK(Tail(Tail(t)))
         ELSE Head(t) \notin {"\"", "\n"} /\ JSONUnescapeOK(Tail(t))

RECURSIVE JSONUnescape(_)
JSONUnescape(t) ==
    IF t = <<>> THEN <<>>
    ELSE IF Head(t) = "\\"
         THEN <<IF t[2] = "n" THEN "\n" ELSE t[2]>> \o JSONUnescape(Tail(Tail(t)))
         ELSE <<Head(t)>> \o JSONUnescape(Tail(t))

\* json.dump of one value of the record's dict: None is written null
JSONValue(v) ==
    IF v = None THEN [j |-> "null", text |-> <<>>]
    ELSE [j |-> "string", text |-> JSONEscape(v)]

\* record_data.get(key): an absent key and null both give None
JSONGet(jv) == IF jv.j = "string" THEN JSONUnescape(jv.text) ELSE None

JSONValueOK(jv) == jv.j # "string" \/ JSONUnescapeOK(jv.text)

Tok(t, v) == [t |-> t, v |-> v]

\* save_to_json lines 100-110: the document, as the chunks json.dump writes
JSONTokens(d) ==
    <<Tok("open", <<>>)>>
    \o [i \in 1..Len(d) |->
            Tok("rec", [name     |-> JSONValue(d[i].rec.name),
                        phone    |-> JSONValue(d[i].rec.phone),
                        email    |-> JSONValue(d[i].rec.email),
                        birthday |-> JSONValue(d[i].rec.birthday)])]
    \o <<Tok("close", <<>>)>>

\* pickle.dump(self.data, file): the dict with its Record objects as they are
PickleTokens(d) ==
    <<Tok("proto", <<>>)>>
    \o [i \in 1..Len(d) |-> Tok("entry", d[i])]
    \o <<Tok("stop", <<>>)>>

\* the outcomes of opening and writing a file of n chunks: written whole, the
\* open fails, or a write fails after k chunks
IOOutcomes(n) ==
    {[kind |-> "ok", n |-> n], [kind |-> "open", n |-> 0]}
    \cup {[kind |-> "write", n |-> k] : k \in 0..(n - 1)}

\* with open(filename, "w") as file: write the chunks.  The open truncates.
WriteFile(before, toks, io) ==
    IF io.kind = "open" THEN before
    ELSE [exists |-> TRUE, bytes |-> SubSeq(toks, 1, io.n)]

\* AddressBook.save_to_json: no except clause, no return value
save_to_json(d, before, io) ==
    [file |-> WriteFile(before, JSONTokens(d), io),
     exc  |-> IF io.kind = "ok" THEN "none" ELSE "OSError",
     ret  |-> RetNone]

\* AddressBook.save_to_pickle
save_to_pickle(d, before, io) ==
    [file |-> WriteFile(before, PickleTokens(d), io),
     exc  |-> "none",
     ret  |-> RetBool(io.kind = "ok")]

\* the file holds bytes that are no UTF-8 text: a pickle starts with 0x80
IsBinary(bytes) == Len(bytes) > 0 /\ bytes[1].t = "proto"

\* json.load(file) returns a dict with a list of objects under "records"
IsJSONDocument(bytes) ==
    /\ Len(bytes) >= 2
    /\ bytes[1].t = "open"
    /\ bytes[Len(bytes)].t = "close"
    /\ \A i \in 2..(Len(bytes) - 1) :
          /\ bytes[i].t = "rec"
          /\ \A k \in {"name", "phone", "email", "birthday"} : JSONValueOK(bytes[i].v[k])

\* json.load(file) returns a value without .get (a list, a number)
IsOtherJSON(bytes) == Len(bytes) = 1 /\ bytes[1].t = "other"

RECURSIVE LoadRecords(_, _, _)
\* load_from_json lines 120-127: Record(...) and add_record for each element
\* from i on; the first raise ends the loop with the records added so far
LoadRecords(d, bytes, i) ==
    IF i > Len(bytes) - 1 THEN [data |-> d, exc |-> "none"]
    ELSE LET o == bytes[i].v
             r == RecordInit(JSONGet(o.name), JSONGet(o.phone),
                             JSONGet(o.email), JSONGet(o.birthday))
         IN  IF r.exc # "none" THEN [data |-> d, exc |-> r.exc]
             ELSE LoadRecords(add_record(d, r.rec), bytes, i + 1)

\* AddressBook.load_from_json: FileNotFoundError and JSONDecodeError are
\* caught, nothing else is.  The file is read as UTF-8 text.
load_from_json(d, file) ==
    IF ~file.exists THEN [data |-> d, exc |-> "none"]
    ELSE IF IsBinary(file.bytes) THEN [data |-> d, exc |-> "UnicodeDecodeError"]
    ELSE IF IsOtherJSON(file.bytes) THEN [data |-> d, exc |-> "AttributeError"]
    ELSE IF ~IsJSONDocument(file.bytes) THEN [data |-> d, exc |-> "none"]
    ELSE LoadRecords(d, file.bytes, 2)

IsPickle(bytes) ==
    /\ Len(bytes) >= 2
    /\ bytes[1].t = "proto"
    /\ bytes[Len(bytes)].t = "stop"
    /\ \A i \in 2..(Len(bytes) - 1) : bytes[i].t = "entry"

\* AddressBook.load_from_pickle: FileNotFoundError and pickle.PickleError are
\* caught.  An empty file raises EOFError; a truncated pickle raises EOFError
\* or UnpicklingError according to where it was cut (atOpcode); other bytes
\* raise UnpicklingError.
load_from_pickle(d, file, atOpcode) ==
    IF ~file.exists THEN [data |-> d, exc |-> "none"]
    ELSE IF file.bytes = <<>> THEN [data |-> d, exc |-> "EOFError"]
    ELSE IF IsPickle(file.bytes)
         THEN [data |-> [i \in 1..(Len(file.bytes) - 2) |-> file.bytes[i + 1].v],
               exc |-> "none"]
    ELSE IF IsBinary(file.bytes) /\ atOpcode THEN [data |-> d, exc |-> "EOFError"]
    ELSE [data |-> d, exc |-> "none"]

\* str.lower() on the letters used
Lower(s) ==
    [i \in 1..Len(s) |-> IF s[i] = "A" THEN "a" ELSE IF s[i] = "B" THEN "b" ELSE s[i]]

\* query in text
Contains(text, query) ==
    \E i \in 0..(Len(text) - Len(query)) : SubSeq(text, i + 1, i + Len(query)) = query

RECURSIVE SearchFrom(_, _, _, _)
\* AddressBook.search lines 134-141: .lower() of None raises AttributeError
SearchFrom(d, q, i, found) ==
    IF i > Len(d) THEN [ret |-> [kind |-> "list", v |-> found], exc |-> "none"]
    ELSE LET r == d[i].rec
         IN  IF r.name = None THEN [ret |-> RetNone, exc |-> "AttributeError"]
             ELSE IF Contains(Lower(r.name), q) \/ Contains(r.phone, q)
             THEN SearchFrom(d, q, i + 1, Append(found, r))
             ELSE IF r.email = None THEN [ret |-> RetNone, exc |-> "AttributeError"]
             ELSE IF Contains(Lower(r.email), q)
             THEN SearchFrom(d, q, i + 1, Append(found, r))
             ELSE SearchFrom(d, q, i + 1, found)

search(d, query) == SearchFrom(d, Lower(query), 1, <<>>)

---------------------------------------------------------------------------
(* The store-level harness: one AddressBook and one file, driven through    *)
(* the AddressBook methods; a raise is recorded and the harness goes on.    *)

NumNames == 2

Names == {<<(<<"A", "B", "C", "D">>)[i]>> : i \in 1..NumNames}

Files == {"f"}

NameAt(i) == <<(<<"A", "B", "C", "D">>)[i]>>

\* a contact without a birthday
Plain(n) ==
    [name |-> n, phone |-> DigitRun(PhoneDigits), email |-> <<"a", "@", "x">>,
     birthday |-> None]

\* a contact whose phone and email need escaping in JSON
Rich(n) ==
    [name |-> n, phone |-> <<"+">> \o DigitRun(PhoneDigits) \o <<"\n">>,
     email |-> n \o <<"\"", "\\">>, birthday |-> FmtISO(BirthYear, 6, 15)]

\* the argument tuples Record is built with: one valid contact per name,
\* alternately Plain and Rich, a second one for the first name (so that
\* add_record overwrites), and one with an invalid phone
GoodInputs ==
    {Rich(NameAt(1))}
    \cup {IF i % 2 = 1 THEN Plain(NameAt(i)) ELSE Rich(NameAt(i)) : i \in 1..NumNames}

BadInputs ==
    {[name |-> <<"A">>, phone |-> <<"x">>, email |-> <<"a", "@", "x">>, birthday |-> None]}

JStr(s) == [j |-> "string", text |-> s]

JNull == [j |-> "null", text |-> <<>>]

JAbsent == [j |-> "absent", text |-> <<>>]

GoodObject ==
    Tok("rec", [name |-> JStr(<<"A">>), phone |-> JStr(DigitRun(PhoneDigits)),
                email |-> JNull, birthday |-> JNull])

\* files found on disk that this program did not write: none, an empty one,
\* text that is no JSON, JSON of another shape, and JSON documents whose
\* second record has an invalid or an absent phone
ExternalFiles ==
    {Missing,
     [exists |-> TRUE, bytes |-> <<>>],
     [exists |-> TRUE, bytes |-> <<Tok("garbage", <<>>)>>],
     [exists |-> TRUE, bytes |-> <<Tok("other", <<>>)>>],
     [exists |-> TRUE, bytes |-> <<Tok("open", <<>>), GoodObject,
         Tok("rec", [name |-> JStr(<<"B">>), phone |-> JStr(<<"1", "2">>),
                     email |-> JNull, birthday |-> JNull]),
         Tok("close", <<>>)>>],
     [exists |-> TRUE, bytes |-> <<Tok("open", <<>>), GoodObject,
         Tok("rec", [name |-> JStr(<<"B">>), phone |-> JAbsent,
                     email |-> JNull, birthday |-> JNull]),
         Tok("close", <<>>)>>]}

Queries == {<<"a">>, <<"B">>, <<"9">>}

\* one call: what it leaves in every variable.  file is "" for a call that
\* touches no file.
Step(op, a, newData, file, newFile, e, r, newPc, msg) ==
    /\ lastOp' = op
    /\ arg' = a
    /\ exc' = e
    /\ ret' = r
    /\ prev' = data
    /\ data' = newData
    /\ prevFile' = IF file = "" THEN Missing ELSE fs[file]
    /\ fs' = IF file = "" THEN fs ELSE [fs EXCEPT ![file] = newFile]
    /\ snap' = IF op = "save_to_json" /\ e = "none"
               THEN [file |-> file, store |-> data, valid |-> TRUE]
               ELSE IF file # "" /\ snap.file = file /\ newFile # fs[file]
               THEN NoSnap
               ELSE snap
    /\ pc' = newPc
    /\ out' = msg
    /\ UNCHANGED <<record, now>>

InitStore ==
    /\ record = NoRecord
    /\ now = NoClock
    /\ prev = <<>>
    /\ data = <<>>
    /\ fs \in [Files -> ExternalFiles]
    /\ snap = NoSnap
    /\ prevFile = Missing
    /\ pc = "api"
    /\ out = ""
    /\ lastOp = "init"
    /\ arg = None
    /\ exc = "none"
    /\ ret = RetNone

\* address_book = AddressBook()
SNewBook ==
    /\ pc = "api"
    /\ Step("AddressBook", None, <<>>, "", Missing, "none", RetNone, "api", "")

\* address_book.add_record(Record(name, phone, email, birthday))
SAdd(inp) ==
    /\ pc = "api"
    /\ LET r == RecordInit(inp.name, inp.phone, inp.email, inp.birthday)
       IN  Step("add_record", inp,
                IF r.exc = "none" THEN add_record(data, r.rec) ELSE data,
                "", Missing, r.exc, RetNone, "api", "")

SFind(name) ==
    /\ pc = "api"
    /\ Step("find", name, data, "", Missing, "none",
            IF find(data, name) = NoRecord THEN RetNone
            ELSE [kind |-> "Record", v |-> find(data, name)],
            "api", "")

SDelete(name) ==
    /\ pc = "api"
    /\ LET r == delete(data, name)
       IN  Step("delete", name, r.data, "", Missing, "none", r.ret, "api", "")

SSearch(q) ==
    /\ pc = "api"
    /\ LET r == search(data, q)
       IN  Step("search", q, data, "", Missing, r.exc, r.ret, "api", "")

SSaveJson(f) ==
    /\ pc = "api"
    /\ \E io \in IOOutcomes(Len(JSONTokens(data))) :
          LET r == save_to_json(data, fs[f], io)
          IN  Step("save_to_json", f, data, f, r.file, r.exc, r.ret, "api", "")

SSavePickle(f) ==
    /\ pc = "api"
    /\ \E io \in IOOutcomes(Len(PickleTokens(data))) :
          LET r == save_to_pickle(data, fs[f], io)
          IN  Step("save_to_pickle", f, data, f, r.file, r.exc, r.ret, "api", "")

SLoadJson(f) ==
    /\ pc = "api"
    /\ LET r == load_from_json(data, fs[f])
       IN  Step("load_from_json", f, r.data, f, fs[f], r.exc, RetNone, "api", "")

SLoadPickle(f) ==
    /\ pc = "api"
    /\ \E atOpcode \in BOOLEAN :
          LET r == load_from_pickle(data, fs[f], atOpcode)
          IN  Step("load_from_pickle", f, r.data, f, fs[f], r.exc, RetNone, "api", "")

NextStore ==
    \/ SNewBook
    \/ \E inp \in GoodInputs \cup BadInputs : SAdd(inp)
    \/ \E n \in Names : SFind(n)
    \/ \E n \in Names : SDelete(n)
    \/ \E q \in Queries : SSearch(q)
    \/ \E f \in Files : SSaveJson(f)
    \/ \E f \in Files : SSavePickle(f)
    \/ \E f \in Files : SLoadJson(f)
    \/ \E f \in Files : SLoadPickle(f)

SpecStore == InitStore /\ [][NextStore]_vars

---------------------------------------------------------------------------
(* Claims about loading and saving *)

Loads == {"load_from_json", "load_from_pickle"}

Saves == {"save_to_json", "save_to_pickle"}

\* the Records a dict holds
Entries(d) == {d[i].rec : i \in 1..Len(d)}

\* the file decodes to a snapshot for the load op
HasSnapshot(op, file) ==
    /\ file.exists
    /\ IF op = "load_from_json" THEN IsJSONDocument(file.bytes) ELSE IsPickle(file.bytes)

\* the records of that snapshot, as written in the file
SnapshotRecords(op, file) ==
    IF op = "load_from_json"
    THEN {[name     |-> JSONGet(file.bytes[i].v.name),
           phone    |-> JSONGet(file.bytes[i].v.phone),
           email    |-> JSONGet(file.bytes[i].v.email),
           birthday |-> JSONGet(file.bytes[i].v.birthday)] : i \in 2..(Len(file.bytes) - 1)}
    ELSE {file.bytes[i].v.rec : i \in 2..(Len(file.bytes) - 1)}

\* the complete file a save of the dict d writes
FullSnapshot(op, d) ==
    [exists |-> TRUE,
     bytes |-> IF op = "save_to_json" THEN JSONTokens(d) ELSE PickleTokens(d)]

\* C1: a load never raises to the caller, and leaves the store either as it
\* was or holding every record of the snapshot, whatever the file holds.
C1_LoadNeverRaisesNorPartial ==
    lastOp \in Loads =>
        /\ exc = "none"
        /\ \/ data = prev
           \/ /\ HasSnapshot(lastOp, fs[arg])
              /\ SnapshotRecords(lastOp, fs[arg]) \subseteq Entries(data)

\* C2: after a save, failed or not, the target file holds either its complete
\* previous content or the complete new snapshot.
C2_SaveIsAtomic ==
    lastOp \in Saves =>
        \/ fs[arg] = prevFile
        \/ fs[arg] = FullSnapshot(lastOp, data)

\* C8: after a successful load the store holds exactly the records of the
\* snapshot: what was in memory before and is not in the snapshot is gone.
C8_LoadReplacesStore ==
    (lastOp \in Loads /\ exc = "none" /\ HasSnapshot(lastOp, fs[arg])) =>
        Entries(data) = SnapshotRecords(lastOp, fs[arg])

---------------------------------------------------------------------------
(* The JSON round trip: stores built by Record and add_record, saved with   *)
(* save_to_json and loaded with load_from_json into a new AddressBook.      *)

InitRoundTrip ==
    /\ record = NoRecord
    /\ now = NoClock
    /\ prev = <<>>
    /\ data = <<>>
    /\ fs = [f \in Files |-> Missing]
    /\ snap = NoSnap
    /\ prevFile = Missing
    /\ pc = "api"
    /\ out = ""
    /\ lastOp = "init"
    /\ arg = None
    /\ exc = "none"
    /\ ret = RetNone

NextRoundTrip ==
    \/ SNewBook
    \/ \E inp \in GoodInputs \cup BadInputs : SAdd(inp)
    \/ \E f \in Files : SSaveJson(f)
    \/ \E f \in Files : SLoadJson(f)

SpecRoundTrip == InitRoundTrip /\ [][NextRoundTrip]_vars

\* the load read, into an empty store, the file the last complete
\* save_to_json wrote
RoundTripDone ==
    /\ lastOp = "load_from_json"
    /\ prev = <<>>
    /\ snap.valid /\ snap.file = arg

\* C9: save_to_json followed by load_from_json of the same file into an empty
\* store gives a store with the same name keys, each record with the same
\* name, phone, email and birthday as the one saved, for any number of records.
C9_JsonRoundTrip ==
    RoundTripDone =>
        /\ exc = "none"
        /\ Len(data) = Len(snap.store)
        /\ {data[i] : i \in 1..Len(data)} = {snap.store[i] : i \in 1..Len(snap.store)}

\* a round trip of a store of two records, one without a birthday and one
\* whose phone and email need escaping
C9_Witness ==
    /\ RoundTripDone
    /\ Len(snap.store) = 2
    /\ \E i \in 1..2 : snap.store[i].rec.birthday = None
    /\ \E i \in 1..2 : snap.store[i].rec.birthday # None /\ Contains(snap.store[i].rec.email, <<"\\">>)

---------------------------------------------------------------------------
(* The interactive menu loop (lines 173-229).  One action per menu option:  *)
(* it reads its input lines, makes its calls and prints its message.  An    *)
(* exception no handler catches ends the program with a traceback.          *)

\* the lines typed for option 1: input() returns a str without its newline,
\* an empty line for no birthday
MenuInputs ==
    {[name |-> NameAt(1), phone |-> DigitRun(PhoneDigits), email |-> <<"a", "@", "x">>,
      birthday |-> <<>>],
     [name |-> NameAt(2), phone |-> <<"+">> \o DigitRun(PhoneDigits), email |-> <<"b">>,
      birthday |-> FmtISO(BirthYear, 6, 15)],
     [name |-> NameAt(1), phone |-> <<"1", "2">>, email |-> <<"a", "@", "x">>,
      birthday |-> <<>>]}

InitMenu ==
    /\ record = NoRecord
    /\ now = NoClock
    /\ prev = <<>>
    /\ data = <<>>
    /\ fs \in [Files -> ExternalFiles]
    /\ snap = NoSnap
    /\ prevFile = Missing
    /\ pc = "menu"
    /\ out = "menu"
    /\ lastOp = "init"
    /\ arg = None
    /\ exc = "none"
    /\ ret = RetNone

\* where the loop is after a call that raised e
After(e) == IF e = "none" THEN "menu" ELSE "crashed"

\* what is on the screen after a call that raised e or else printed msg
Shown(e, msg) == IF e = "none" THEN msg ELSE "traceback"

\* if <value>: None and False are false, True is true
Truthy(r) == r.kind = "bool" /\ r.v = 1

\* choice "1" (lines 177-185)
MenuAdd(inp) ==
    /\ pc = "menu"
    /\ LET r == RecordInit(inp.name, inp.phone, inp.email, inp.birthday)
       IN  Step("add_record", inp,
                IF r.exc = "none" THEN add_record(data, r.rec) ELSE data,
                "", Missing, r.exc, RetNone, After(r.exc), Shown(r.exc, "added"))

\* choice "2" (lines 187-192)
MenuSaveJson(f) ==
    /\ pc = "menu"
    /\ \E io \in IOOutcomes(Len(JSONTokens(data))) :
          LET r == save_to_json(data, fs[f], io)
          IN  Step("save_to_json", f, data, f, r.file, r.exc, r.ret, After(r.exc),
                   Shown(r.exc, IF Truthy(r.ret) THEN "saved" ELSE "save_error"))

\* choice "3" (lines 194-197)
MenuLoadJson(f) ==
    /\ pc = "menu"
    /\ LET r == load_from_json(data, fs[f])
       IN  Step("load_from_json", f, r.data, f, fs[f], r.exc, RetNone, After(r.exc),
                Shown(r.exc, "loaded"))

\* choice "4" (lines 199-204)
MenuSavePickle(f) ==
    /\ pc = "menu"
    /\ \E io \in IOOutcomes(Len(PickleTokens(data))) :
          LET r == save_to_pickle(data, fs[f], io)
          IN  Step("save_to_pickle", f, data, f, r.file, r.exc, r.ret, After(r.exc),
                   Shown(r.exc, IF Truthy(r.ret) THEN "saved" ELSE "save_error"))

\* choice "5" (lines 206-209)
MenuLoadPickle(f) ==
    /\ pc = "menu"
    /\ \E atOpcode \in BOOLEAN :
          LET r == load_from_pickle(data, fs[f], atOpcode)
          IN  Step("load_from_pickle", f, r.data, f, fs[f], r.exc, RetNone, After(r.exc),
                   Shown(r.exc, "loaded"))

\* choice "6" (lines 211-222)
MenuSearch(q) ==
    /\ pc = "menu"
    /\ LET r == search(data, q)
       IN  Step("search", q, data, "", Missing, r.exc, r.ret, After(r.exc),
                Shown(r.exc, IF r.ret.kind = "list" /\ r.ret.v # <<>>
                             THEN "results" ELSE "no_matches"))

\* choice "7" (lines 224-226)
MenuExit ==
    /\ pc = "menu"
    /\ Step("exit", None, data, "", Missing, "none", RetNone, "exited", "bye")

\* any other line (lines 228-229)
MenuInvalid ==
    /\ pc = "menu"
    /\ Step("invalid", None, data, "", Missing, "none", RetNone, "menu", "invalid_choice")

NextMenu ==
    \/ \E inp \in MenuInputs : MenuAdd(inp)
    \/ \E f \in Files : MenuSaveJson(f)
    \/ \E f \in Files : MenuLoadJson(f)
    \/ \E f \in Files : MenuSavePickle(f)
    \/ \E f \in Files : MenuLoadPickle(f)
    \/ \E q \in Queries : MenuSearch(q)
    \/ MenuExit
    \/ MenuInvalid

SpecMenu == InitMenu /\ [][NextMenu]_vars

\* C3: a save reports its outcome as a status value, success when the whole
\* snapshot is in the file and failure (never a raise) when it is not, and
\* the menu prints the success message exactly when the file was written.
C3_SaveReportsStatus ==
    lastOp \in Saves =>
        /\ exc = "none"
        /\ ret.kind = "bool"
        /\ Truthy(ret) <=> fs[arg] = FullSnapshot(lastOp, data)
        /\ (out = "saved") <=> fs[arg] = FullSnapshot(lastOp, data)

\* C4: whatever lines are typed, the program never ends with an uncaught
\* exception, and the loop ends only through the exit option.
C4_MenuNeverCrashes ==
    /\ pc # "crashed"
    /\ pc = "exited" => lastOp = "exit"

=============================================================================
